---- MODULE Spec2Model ----
(***************************************************************************)
(* Extraction engine of get_m3u (src/index.py): the Flask front door, the  *)
(* process-wide extraction lock, the episode-count reconciliation, the     *)
(* per-episode loop with its global deadline, and the browser session with *)
(* its ephemeral profile directory.                                        *)
(*                                                                         *)
(* Every request is served by one thread; a thread is a slot of Procs.     *)
(* A slot is reused for a new request once its response has been sent.     *)
(***************************************************************************)
EXTENDS Integers, Sequences, FiniteSets, TLC

VARIABLES
    pc,                 \* slot -> position of its thread in home / extract_miruro_links
    lock,               \* extraction_lock: 0 when free, else the slot holding it
    anime,              \* slot -> result of fetch_anime_details
    elapsed,            \* slot -> time.time() - start_time, in seconds
    total_eps_anilist,  \* slot -> local of extract_miruro_links
    total_eps_miruro,   \* slot -> local of extract_miruro_links
    total_eps,          \* slot -> local of extract_miruro_links
    ep,                 \* slot -> loop variable of the episode loop
    results,            \* slot -> the results list being built
    driver,             \* slot -> state of the webdriver handle of the run
    temp_dir,           \* slot -> state of the profile directory of the run
    quit_calls,         \* slot -> number of driver.quit() calls of the run
    rmtree_calls,       \* slot -> number of shutil.rmtree(temp_dir) calls of the run
    broke_at,           \* slot -> episodes completed when the deadline break fired, -1 if it did not
    last_event,         \* slot -> the last executed loop iteration: its episode and how it ended
    outcome,            \* slot -> how extract_miruro_links ended: "none", "returned", "raised"
    report,             \* slot -> the value extract_miruro_links returns
    status,             \* slot -> HTTP status of the response, 0 while there is none
    anime_input,        \* slot -> local of home: the request's input, <<>> when it has none
    now,                \* the wall clock of the rate limiter, in seconds
    hits,               \* client -> the limiter's counter of the client's current window
    expiry,             \* client -> the time at which that counter expires
    passed,             \* client -> times at which the client's requests in the last
                        \*           LIMIT_SECONDS seconds called extract_miruro_links
    cur_page,           \* slot -> the episode page the browser is on
    attempt,            \* slot -> the attempts of extract_video_url begun on that page
    gestured,           \* slot -> the attempts whose play gesture was issued
    scanned,            \* slot -> the attempts whose page source was read and searched
    ret,                \* slot -> how the try block of the episode ended
    began_at            \* slot -> the elapsed time seen by the last deadline check that passed

\* the state of the rate limiter
limiterVars == <<now, hits, expiry, passed>>

\* the variables that only the models of single components change
\* the state of one episode's polling, for the model that steps through it
pollVars == <<cur_page, attempt, gestured, scanned, ret, began_at>>

auxVars == <<limiterVars, pollVars>>

vars == <<pc, lock, anime, elapsed, total_eps_anilist, total_eps_miruro, total_eps, ep,
          results, driver, temp_dir, quit_calls, rmtree_calls, broke_at, last_event,
          outcome, report, status, anime_input, auxVars>>

\* ------------------------------------------------------------------ bounds
NumRequests == 2        \* threads serving requests at the same time
MaxEpisodes == 3        \* largest authoritative episode count of the concurrent model
MaxProbe == 3           \* largest site-probed episode count of the concurrent model
MaxCount == 27          \* largest count of the reconciliation model (beyond the cap)
NumClients == 2         \* remote addresses the rate limiter tells apart
MaxTime == 90           \* the rate limiter's clock stops here
MaxElapsed == 900       \* the stepwise poller's clock stops here
MaxHits == 6            \* a client stops asking after this many requests in one window

\* ------------------------------------------------------- program constants
MAX_RUNTIME_SECONDS == 600
EPISODE_CAP == 25
DEFAULT_EPISODES == 12
max_attempts == 25
LIMIT_AMOUNT == 5       \* "5 per minute"
LIMIT_SECONDS == 60

Procs == 1..NumRequests
Clients == 1..NumClients
Durations == {0, 300}           \* seconds one blocking browser operation may take

Min(a, b) == IF a <= b THEN a ELSE b

\* ------------------------------------------------------------ data shapes
\* fetch_anime_details returns None or the Media object; of the Media object the
\* run reads the "episodes" key: missing, null (JSON null -> None) or an integer.
NoAnime == [media |-> FALSE, key |-> "missing", episodes |-> 0]
Media(key, n) == [media |-> TRUE, key |-> key, episodes |-> n]

MetadataFor(maxA) ==
    {NoAnime, Media("null", 0)} \cup {Media("int", n) : n \in 0..maxA}

NoReport == [none |-> TRUE]
ErrorReport == [error |-> "Could not fetch anime details"]

Entry(k, url) == [episode |-> k, url |-> url]

Event(k, result) == [episode |-> k, result |-> result]
NoEvent == Event(0, "none")

\* ------------------------------------------------- episode-count reconciliation
\* anime.get("episodes", 12): the default stands in for a missing key only; a key
\* that is present with JSON null yields None.
GetEpisodes(a) ==
    IF a.key = "missing" THEN [isNone |-> FALSE, n |-> DEFAULT_EPISODES]
    ELSE IF a.key = "null" THEN [isNone |-> TRUE, n |-> 0]
    ELSE [isNone |-> FALSE, n |-> a.episodes]

\* min(None, 25) raises TypeError
AnilistCountRaises(a) == GetEpisodes(a).isNone

\* total_eps_anilist = min(anime.get("episodes", 12), 25)
AnilistCount(a) == Min(GetEpisodes(a).n, EPISODE_CAP)

\* Mutant: the fallback of a failed probe is forgotten, min(total_eps_anilist, total_eps_miruro)
TotalEpsNoFallback(a, s) == Min(a, s)

\* total_eps = min(total_eps_anilist, total_eps_miruro or total_eps_anilist)
TotalEps(a, s) == Min(a, IF s # 0 THEN s ELSE a)

\* ------------------------------------------------------------- the poller
\* What the browser shows during one attempt of extract_video_url: whether the
\* play gesture raises, whether reading the page source raises (in the wait and
\* in the fallback read of the except branch), and which URL patterns the page
\* source holds. The read is "ok" when the wait returns the page source,
\* "fallback" when the wait raises and the read of the except branch returns it,
\* and "raise" when that read raises as well. The page source is the sequence of
\* the URLs that occur in it, in their order.
Scan(gesture, read, html) == [gesture |-> gesture, read |-> read, html |-> html]
QuietScan == Scan("ok", "ok", <<>>)

\* the URLs that pattern_m3u8 and pattern_mp4 match; every other URL matches neither
M3U8_URLS == {"a.m3u8", "b.m3u8"}
MP4_URLS == {"a.mp4", "b.mp4"}

\* pattern.search(html): the first URL in the page source that matches the
\* pattern, "" for no match
RECURSIVE re_search(_, _)
re_search(matching, html) ==
    IF html = <<>> THEN ""
    ELSE IF Head(html) \in matching THEN Head(html)
    ELSE re_search(matching, Tail(html))

\* Mutant: one search for either pattern, the leftmost match is returned
VideoUrlLeftmost(html) == re_search(M3U8_URLS \cup MP4_URLS, html)

\* video_url = m3u8_match.group(0) if m3u8_match else mp4_match.group(0), "" when
\* neither pattern matches
VideoUrl(html) ==
    LET m3u8_match == re_search(M3U8_URLS, html)
        mp4_match == re_search(MP4_URLS, html)
    IN  IF m3u8_match # "" THEN m3u8_match ELSE mp4_match

\* An episode page: whether driver.get / the page wait raise, whether the body
\* element is found, and the scan of every attempt.
Page(nav, body, n, s) ==
    [nav |-> nav, body |-> body,
     scans |-> [i \in 1..max_attempts |-> IF i = n THEN s ELSE QuietScan]]

PollResult(raised, url, attempts) == [raised |-> raised, url |-> url, attempts |-> attempts]

RECURSIVE Poll(_, _)
Poll(page, i) ==
    IF i > max_attempts THEN PollResult(FALSE, "", max_attempts)
    ELSE LET s == page.scans[i] IN
         IF s.read = "raise" THEN PollResult(TRUE, "", i)
         ELSE IF VideoUrl(s.html) # ""
              THEN PollResult(FALSE, VideoUrl(s.html), i)
              ELSE Poll(page, i + 1)

\* extract_video_url(driver): the body lookup is outside every try of the function
extract_video_url(page) ==
    IF ~page.body THEN PollResult(TRUE, "", 0) ELSE Poll(page, 1)

\* The episode pages of the concurrent model: navigation fails; the body lookup
\* fails; an .m3u8 URL shows at the first attempt; an .mp4 URL shows at the second
\* attempt, whose gesture raises; both show at the last attempt; nothing ever
\* shows; reading the page source raises at the third attempt.
Pages ==
    {Page("raise", TRUE, 1, QuietScan),
     Page("ok", FALSE, 1, QuietScan),
     Page("ok", TRUE, 1, Scan("ok", "ok", <<"a.m3u8">>)),
     Page("ok", TRUE, 2, Scan("raise", "ok", <<"a.mp4">>)),
     Page("ok", TRUE, max_attempts, Scan("ok", "ok", <<"a.mp4", "a.m3u8">>)),
     Page("ok", TRUE, 1, QuietScan),
     Page("ok", TRUE, 3, Scan("ok", "raise", <<>>))}
QuietPages == {Page("ok", TRUE, 1, QuietScan)}
QuietPage == Page("ok", TRUE, 1, QuietScan)

\* a page that loads, with two attempts that differ from the quiet ones
Page2(n, s, m, t) ==
    [nav |-> "ok", body |-> TRUE,
     scans |-> [i \in 1..max_attempts |-> IF i = n THEN s ELSE IF i = m THEN t ELSE QuietScan]]

NoResult == PollResult(FALSE, "", 0)

\* ------------------------------------------------------------------ state
Init ==
    /\ pc = [p \in Procs |-> "idle"]
    /\ lock = 0
    /\ anime = [p \in Procs |-> NoAnime]
    /\ elapsed = [p \in Procs |-> 0]
    /\ total_eps_anilist = [p \in Procs |-> 0]
    /\ total_eps_miruro = [p \in Procs |-> 0]
    /\ total_eps = [p \in Procs |-> 0]
    /\ ep = [p \in Procs |-> 0]
    /\ results = [p \in Procs |-> <<>>]
    /\ driver = [p \in Procs |-> "none"]
    /\ temp_dir = [p \in Procs |-> "none"]
    /\ quit_calls = [p \in Procs |-> 0]
    /\ rmtree_calls = [p \in Procs |-> 0]
    /\ broke_at = [p \in Procs |-> -1]
    /\ last_event = [p \in Procs |-> NoEvent]
    /\ outcome = [p \in Procs |-> "none"]
    /\ report = [p \in Procs |-> NoReport]
    /\ status = [p \in Procs |-> 0]
    /\ anime_input = [p \in Procs |-> <<>>]
    /\ now = 0
    /\ hits = [c \in Clients |-> 0]
    /\ expiry = [c \in Clients |-> 0]
    /\ passed = [c \in Clients |-> <<>>]
    /\ cur_page = [p \in Procs |-> QuietPage]
    /\ attempt = [p \in Procs |-> 0]
    /\ gestured = [p \in Procs |-> {}]
    /\ scanned = [p \in Procs |-> {}]
    /\ ret = [p \in Procs |-> NoResult]
    /\ began_at = [p \in Procs |-> 0]

runVars == <<anime, elapsed, total_eps_anilist, total_eps_miruro, total_eps, ep, results,
             driver, temp_dir, quit_calls, rmtree_calls, broke_at, last_event, outcome,
             report>>

Set(f, p, v) == [f EXCEPT ![p] = v]

\* ------------------------------------------------------------ the front door
\* Text is a sequence of characters.
StartsAt(s, pat, i) ==
    /\ i + Len(pat) - 1 <= Len(s)
    /\ SubSeq(s, i, i + Len(pat) - 1) = pat

\* pat in s
Contains(s, pat) == \E i \in 1..Len(s) : StartsAt(s, pat, i)

Digits == {"0", "1", "2", "3", "4", "5", "6", "7", "8", "9"}

DigitValue(c) ==
    CASE c = "0" -> 0 [] c = "1" -> 1 [] c = "2" -> 2 [] c = "3" -> 3 [] c = "4" -> 4
      [] c = "5" -> 5 [] c = "6" -> 6 [] c = "7" -> 7 [] c = "8" -> 8 [] c = "9" -> 9

\* the value of a run of decimal digits
RECURSIVE ToInt(_)
ToInt(ds) ==
    IF ds = <<>> THEN 0
    ELSE 10 * ToInt(SubSeq(ds, 1, Len(ds) - 1)) + DigitValue(ds[Len(ds)])

\* the last index of the longest run of digits of s that starts at i
RECURSIVE DigitRunEnd(_, _)
DigitRunEnd(s, i) ==
    IF i <= Len(s) /\ s[i] \in Digits THEN DigitRunEnd(s, i + 1) ELSE i - 1

WATCH == <<"/", "w", "a", "t", "c", "h", "/">>
MIRURO == <<"m", "i", "r", "u", "r", "o", ".", "t", "o">>

\* re.search(r"/watch/(\d+)", anime_input): the leftmost place where /watch/ is
\* followed by a digit, and the longest run of digits there as group 1
re_search_watch(s) ==
    LET at == {i \in 1..Len(s) :
                  /\ StartsAt(s, WATCH, i)
                  /\ i + Len(WATCH) <= Len(s)
                  /\ s[i + Len(WATCH)] \in Digits}
    IN  IF at = {} THEN [matched |-> FALSE, group |-> <<>>]
        ELSE LET i == CHOOSE k \in at : \A j \in at : k <= j
             IN  [matched |-> TRUE,
                  group |-> SubSeq(s, i + Len(WATCH), DigitRunEnd(s, i + Len(WATCH)))]

RECURSIVE Strip(_)
Strip(s) ==
    IF s = <<>> THEN s
    ELSE IF Head(s) = " " THEN Strip(Tail(s))
    ELSE IF s[Len(s)] = " " THEN Strip(SubSeq(s, 1, Len(s) - 1))
    ELSE s

\* int(anime_input): surrounding whitespace is dropped, one sign may lead, the
\* rest is decimal digits with single underscores between digits; anything
\* else raises ValueError.
int(s) ==
    LET t == Strip(s)
        signed == t # <<>> /\ Head(t) \in {"+", "-"}
        body == IF signed THEN Tail(t) ELSE t
        wellFormed ==
            /\ body # <<>>
            /\ \A i \in 1..Len(body) :
                   \/ body[i] \in Digits
                   \/ /\ body[i] = "_"
                      /\ 1 < i /\ i < Len(body)
                      /\ body[i - 1] \in Digits /\ body[i + 1] \in Digits
        digits == SelectSeq(body, LAMBDA c : c \in Digits)
    IN  IF wellFormed
        THEN [raises |-> FALSE,
              value |-> IF signed /\ Head(t) = "-" THEN 0 - ToInt(digits) ELSE ToInt(digits)]
        ELSE [raises |-> TRUE, value |-> 0]

\* The query string of a request: the parameters anime_id, id and url, each
\* <<>> when it is missing or empty.
Request(a, i, u) == [anime_id |-> a, id |-> i, url |-> u]

\* request.args.get("anime_id") or request.args.get("id") or request.args.get("url")
SelectInput(req) ==
    IF req.anime_id # <<>> THEN req.anime_id
    ELSE IF req.id # <<>> THEN req.id
    ELSE req.url

Route(route, code, id) == [route |-> route, status |-> code, anime_id |-> id]

\* home() from its input to the call of extract_miruro_links: no input answers
\* 200 with a message; an input that holds "miruro.to" must match /watch/<digits>,
\* any other input must be accepted by int(); a failure answers 400.
ParseInput(s) ==
    IF s = <<>> THEN Route("message", 200, 0)
    ELSE IF Contains(s, MIRURO)
    THEN LET m == re_search_watch(s)
         IN  IF ~m.matched THEN Route("error", 400, 0)
             ELSE Route("extract", 0, int(m.group).value)
    ELSE LET v == int(s)
         IN  IF v.raises THEN Route("error", 400, 0)
             ELSE Route("extract", 0, v.value)

\* Mutant: the error answers are returned without their status code, so Flask sends 200
HomeForgetsStatus(p, requests) ==
    /\ pc[p] = "idle"
    /\ \E req \in requests :
         LET r == ParseInput(SelectInput(req)) IN
         /\ anime_input' = Set(anime_input, p, SelectInput(req))
         /\ IF r.route = "extract"
            THEN /\ pc' = Set(pc, p, "acquire")
                 /\ UNCHANGED status
            ELSE /\ status' = Set(status, p, 200)
                 /\ pc' = Set(pc, p, "responded")
    /\ UNCHANGED <<lock, runVars, auxVars>>

\* home() up to its call of extract_miruro_links (whose first step is Acquire)
\* the body of home() for one request, up to its call of extract_miruro_links
\* (whose first step is Acquire)
HomeHandler(p, req) ==
    LET r == ParseInput(SelectInput(req)) IN
    /\ anime_input' = Set(anime_input, p, SelectInput(req))
    /\ IF r.route = "extract"
       THEN /\ pc' = Set(pc, p, "acquire")
            /\ UNCHANGED status
       ELSE /\ status' = Set(status, p, r.status)
            /\ pc' = Set(pc, p, "responded")

\* home() for a request of a client that is under its rate ceiling
Home(p, requests) ==
    /\ pc[p] = "idle"
    /\ \E req \in requests : HomeHandler(p, req)
    /\ UNCHANGED <<lock, runVars, auxVars>>

\* ---------------------------------------------------------- the rate limiter
\* Limiter(app, key_func=get_remote_address, default_limits=["5 per minute"])
\* names no strategy and no storage, so the limit of the route's decorator is
\* kept by the fixed-window strategy over the in-memory storage: a counter per
\* client that starts a window of LIMIT_SECONDS at the hit that creates it, is
\* dropped once that window has run out and is incremented by every hit, the
\* refused ones too. A hit passes when the incremented counter is within
\* LIMIT_AMOUNT.
Expired(c) == hits[c] > 0 /\ expiry[c] <= now

Counter(c) == IF Expired(c) THEN 0 ELSE hits[c]

Hit(c) ==
    /\ hits' = Set(hits, c, Counter(c) + 1)
    /\ expiry' = Set(expiry, c, IF Counter(c) = 0 THEN now + LIMIT_SECONDS ELSE expiry[c])

\* the times of a log that fall in the LIMIT_SECONDS seconds ending at t
Recent(log, t) == SelectSeq(log, LAMBDA u : u > t - LIMIT_SECONDS)

\* A request of client c arrives: the limiter counts it and either lets home()
\* run or answers 429 in its place.
LimitedHome(p, c, requests) ==
    /\ pc[p] = "idle"
    /\ Counter(c) < MaxHits
    /\ Hit(c)
    /\ IF Counter(c) + 1 <= LIMIT_AMOUNT
       THEN \E req \in requests :
              /\ HomeHandler(p, req)
              /\ passed' = Set(passed, c,
                               IF ParseInput(SelectInput(req)).route = "extract"
                               THEN Append(passed[c], now) ELSE passed[c])
       ELSE /\ status' = Set(status, p, 429)
            /\ pc' = Set(pc, p, "responded")
            /\ UNCHANGED <<anime_input, passed>>
    /\ UNCHANGED <<lock, runVars, now, pollVars>>

\* seconds by which the clock is seen to advance
Ticks == {30}

Tick ==
    /\ \E d \in Ticks :
         /\ now + d <= MaxTime
         /\ now' = now + d
         /\ passed' = [c \in Clients |-> Recent(passed[c], now + d)]
    /\ UNCHANGED <<pc, lock, runVars, status, anime_input, hits, expiry, pollVars>>

\* Mutant: the body is entered without waiting for the lock to be free
AcquireNoLock(p) ==
    /\ pc[p] = "acquire"
    /\ lock' = p
    /\ elapsed' = Set(elapsed, p, 0)
    /\ pc' = Set(pc, p, "fetch")
    /\ UNCHANGED <<anime, total_eps_anilist, total_eps_miruro, total_eps, ep, results, driver,
                   temp_dir, quit_calls, rmtree_calls, broke_at, last_event, outcome, report,
                   status>>
    /\ UNCHANGED <<anime_input, auxVars>>

\* Mutant: extraction_lock.acquire(blocking=False), a request that finds the lock
\* taken is turned away
AcquireOrReject(p) ==
    /\ pc[p] = "acquire"
    /\ IF lock = 0
       THEN /\ lock' = p
            /\ elapsed' = Set(elapsed, p, 0)
            /\ pc' = Set(pc, p, "fetch")
            /\ UNCHANGED status
       ELSE /\ status' = Set(status, p, 503)
            /\ pc' = Set(pc, p, "responded")
            /\ UNCHANGED <<lock, elapsed>>
    /\ UNCHANGED <<anime, total_eps_anilist, total_eps_miruro, total_eps, ep, results, driver,
                   temp_dir, quit_calls, rmtree_calls, broke_at, last_event, outcome, report>>
    /\ UNCHANGED <<anime_input, auxVars>>

\* with extraction_lock: (entry), start_time = time.time()
Acquire(p) ==
    /\ pc[p] = "acquire"
    /\ lock = 0
    /\ lock' = p
    /\ elapsed' = Set(elapsed, p, 0)
    /\ pc' = Set(pc, p, "fetch")
    /\ UNCHANGED <<anime, total_eps_anilist, total_eps_miruro, total_eps, ep, results, driver,
                   temp_dir, quit_calls, rmtree_calls, broke_at, last_event, outcome, report,
                   status>>
    /\ UNCHANGED <<anime_input, auxVars>>

\* Mutant: the "if not anime" return is missing and the run goes on with the default count
FetchNoCheck(p, metadata) ==
    /\ pc[p] = "fetch"
    /\ \E m \in metadata :
         /\ anime' = Set(anime, p, m)
         /\ IF m.media /\ AnilistCountRaises(m)
            THEN /\ outcome' = Set(outcome, p, "raised")
                 /\ pc' = Set(pc, p, "exit")
                 /\ UNCHANGED total_eps_anilist
            ELSE /\ total_eps_anilist' = Set(total_eps_anilist, p, AnilistCount(m))
                 /\ pc' = Set(pc, p, "init")
                 /\ UNCHANGED outcome
    /\ UNCHANGED <<lock, elapsed, total_eps_miruro, total_eps, ep, results, driver, temp_dir,
                   quit_calls, rmtree_calls, broke_at, last_event, report, status>>
    /\ UNCHANGED <<anime_input, auxVars>>

\* anime = fetch_anime_details(anime_id); the early return of the error report;
\* total_eps_anilist = min(anime.get("episodes", 12), 25)
Fetch(p, metadata) ==
    /\ pc[p] = "fetch"
    /\ \E m \in metadata :
         /\ anime' = Set(anime, p, m)
         /\ IF ~m.media
            THEN /\ report' = Set(report, p, ErrorReport)
                 /\ outcome' = Set(outcome, p, "returned")
                 /\ pc' = Set(pc, p, "exit")
                 /\ UNCHANGED total_eps_anilist
            ELSE IF AnilistCountRaises(m)
            THEN /\ outcome' = Set(outcome, p, "raised")
                 /\ pc' = Set(pc, p, "exit")
                 /\ UNCHANGED <<report, total_eps_anilist>>
            ELSE /\ total_eps_anilist' = Set(total_eps_anilist, p, AnilistCount(m))
                 /\ pc' = Set(pc, p, "init")
                 /\ UNCHANGED <<report, outcome>>
    /\ UNCHANGED <<lock, elapsed, total_eps_miruro, total_eps, ep, results, driver, temp_dir,
                   quit_calls, rmtree_calls, broke_at, last_event, status>>
    /\ UNCHANGED <<anime_input, auxVars>>

\* driver, temp_dir = initialize_driver(): tempfile.mkdtemp() creates the profile
\* directory, then webdriver.Chrome(...) launches the browser or raises. The
\* call is made before the try block of extract_miruro_links is entered.
InitializeDriver(p, durations) ==
    /\ pc[p] = "init"
    /\ \E launch \in {"ok", "raise"}, d \in durations :
         /\ temp_dir' = Set(temp_dir, p, "exists")
         /\ elapsed' = Set(elapsed, p, elapsed[p] + d)
         /\ IF launch = "ok"
            THEN /\ driver' = Set(driver, p, "open")
                 /\ pc' = Set(pc, p, "probe")
                 /\ UNCHANGED outcome
            ELSE /\ outcome' = Set(outcome, p, "raised")
                 /\ pc' = Set(pc, p, "exit")
                 /\ UNCHANGED driver
    /\ UNCHANGED <<lock, anime, total_eps_anilist, total_eps_miruro, total_eps, ep, results,
                   quit_calls, rmtree_calls, broke_at, last_event, report, status>>
    /\ UNCHANGED <<anime_input, auxVars>>

\* total_eps_miruro = get_miruro_episode_count(driver, anime_id), which answers 0
\* on any exception; total_eps = min(...); results = []
Probe(p, maxS, durations) ==
    /\ pc[p] = "probe"
    /\ \E s \in 0..maxS, d \in durations :
         /\ total_eps_miruro' = Set(total_eps_miruro, p, s)
         /\ total_eps' = Set(total_eps, p, TotalEps(total_eps_anilist[p], s))
         /\ elapsed' = Set(elapsed, p, elapsed[p] + d)
    /\ results' = Set(results, p, <<>>)
    /\ ep' = Set(ep, p, 1)
    /\ pc' = Set(pc, p, "loop")
    /\ UNCHANGED <<lock, anime, total_eps_anilist, driver, temp_dir, quit_calls, rmtree_calls,
                   broke_at, last_event, outcome, report, status>>
    /\ UNCHANGED <<anime_input, auxVars>>

\* if time.time() - start_time > MAX_RUNTIME_SECONDS
DeadlineExceeded(p) == elapsed[p] > MAX_RUNTIME_SECONDS

\* What one pass of the try block of the loop body yields on a page: driver.get
\* and the page wait, then extract_video_url.
ProcessEpisode(page) ==
    IF page.nav = "raise" THEN PollResult(TRUE, "", 0) ELSE extract_video_url(page)

\* Mutant: results.insert(0, ...) in place of results.append(...)
RecordPrepend(rs, k, r) ==
    IF ~r.raised /\ r.url # "" THEN <<Entry(k, r.url)>> \o rs ELSE rs

\* results after the loop body for episode k ended with r
Record(rs, k, r) ==
    IF ~r.raised /\ r.url # "" THEN Append(rs, Entry(k, r.url)) ELSE rs

\* Mutant: the loop body has no except handler, an exception leaves the loop for
\* the finally block
EpisodeAborts(p, pages, durations) ==
    /\ pc[p] = "loop"
    /\ ep[p] <= total_eps[p]
    /\ elapsed[p] <= MAX_RUNTIME_SECONDS
    /\ \E page \in pages, d \in durations :
         LET r == IF page.nav = "raise" THEN PollResult(TRUE, "", 0)
                  ELSE extract_video_url(page) IN
         /\ results' = Set(results, p,
                IF ~r.raised /\ r.url # "" THEN Append(results[p], Entry(ep[p], r.url))
                ELSE results[p])
         /\ last_event' = Set(last_event, p, Event(ep[p],
                IF r.raised THEN "raised" ELSE IF r.url # "" THEN "found" ELSE "not_found"))
         /\ elapsed' = Set(elapsed, p, elapsed[p] + d)
         /\ IF r.raised
            THEN /\ pc' = Set(pc, p, "quit")
                 /\ UNCHANGED ep
            ELSE /\ ep' = Set(ep, p, ep[p] + 1)
                 /\ UNCHANGED pc
    /\ UNCHANGED <<lock, anime, total_eps_anilist, total_eps_miruro, total_eps, driver,
                   temp_dir, quit_calls, rmtree_calls, broke_at, outcome, report, status>>
    /\ UNCHANGED <<anime_input, auxVars>>

\* One iteration of the for loop that passes the deadline check: the try block
\* with its except Exception handler, then the loop advances.
Episode(p, pages, durations) ==
    /\ pc[p] = "loop"
    /\ ep[p] <= total_eps[p]
    /\ ~DeadlineExceeded(p)
    /\ \E page \in pages, d \in durations :
         LET r == ProcessEpisode(page) IN
         /\ results' = Set(results, p, Record(results[p], ep[p], r))
         /\ last_event' = Set(last_event, p, Event(ep[p],
                IF r.raised THEN "raised" ELSE IF r.url # "" THEN "found" ELSE "not_found"))
         /\ elapsed' = Set(elapsed, p, elapsed[p] + d)
    /\ ep' = Set(ep, p, ep[p] + 1)
    /\ UNCHANGED <<pc, lock, anime, total_eps_anilist, total_eps_miruro, total_eps, driver,
                   temp_dir, quit_calls, rmtree_calls, broke_at, outcome, report, status>>
    /\ UNCHANGED <<anime_input, auxVars>>

\* ------------------------------------------------- the loop body in steps
\* The deadline check passes, then driver.get, the page wait and the body
\* lookup of extract_video_url: either of them raising ends the try block
\* before the first attempt.
BeginEpisode(p, pages, durations) ==
    /\ pc[p] = "loop"
    /\ ep[p] <= total_eps[p]
    /\ ~DeadlineExceeded(p)
    /\ \E pg \in pages, d \in durations :
         /\ elapsed[p] + d <= MaxElapsed
         /\ elapsed' = Set(elapsed, p, elapsed[p] + d)
         /\ cur_page' = Set(cur_page, p, pg)
         /\ IF pg.nav = "raise" \/ ~pg.body
            THEN /\ ret' = Set(ret, p, PollResult(TRUE, "", 0))
                 /\ pc' = Set(pc, p, "polled")
            ELSE /\ ret' = Set(ret, p, NoResult)
                 /\ pc' = Set(pc, p, "poll")
    /\ began_at' = Set(began_at, p, elapsed[p])
    /\ attempt' = Set(attempt, p, 0)
    /\ gestured' = Set(gestured, p, {})
    /\ scanned' = Set(scanned, p, {})
    /\ UNCHANGED <<lock, anime, total_eps_anilist, total_eps_miruro, total_eps, ep, results,
                   driver, temp_dir, quit_calls, rmtree_calls, broke_at, last_event, outcome,
                   report, status, anime_input, limiterVars>>

\* What one pass of the for loop of extract_video_url does with the browser's
\* answers sc at attempt i: whether the page source was read and searched,
\* whether the function is left, and how.
Step(scan, end, result) == [scan |-> scan, end |-> end, ret |-> result]

\* Mutant: range(1, max_attempts), one attempt short
AttemptResultOneShort(sc, i) ==
    IF sc.read = "raise" THEN Step(FALSE, TRUE, PollResult(TRUE, "", i))
    ELSE IF VideoUrl(sc.html) # "" THEN Step(TRUE, TRUE, PollResult(FALSE, VideoUrl(sc.html), i))
    ELSE IF i = max_attempts - 1 THEN Step(TRUE, TRUE, PollResult(FALSE, "", i))
    ELSE Step(TRUE, FALSE, NoResult)

\* Mutant: the play gesture is made outside a try block
AttemptResultGestureRaises(sc, i) ==
    IF sc.gesture = "raise" \/ sc.read = "raise" THEN Step(FALSE, TRUE, PollResult(TRUE, "", i))
    ELSE IF VideoUrl(sc.html) # "" THEN Step(TRUE, TRUE, PollResult(FALSE, VideoUrl(sc.html), i))
    ELSE IF i = max_attempts THEN Step(TRUE, TRUE, PollResult(FALSE, "", i))
    ELSE Step(TRUE, FALSE, NoResult)

\* The exception of the play gesture is passed over; the exception of the wait
\* for the page source is answered by a second read, whose exception leaves the
\* function; the two searches; the return of a match; None after the last
\* attempt.
AttemptResult(sc, i) ==
    IF sc.read = "raise" THEN Step(FALSE, TRUE, PollResult(TRUE, "", i))
    ELSE IF VideoUrl(sc.html) # "" THEN Step(TRUE, TRUE, PollResult(FALSE, VideoUrl(sc.html), i))
    ELSE IF i = max_attempts THEN Step(TRUE, TRUE, PollResult(FALSE, "", i))
    ELSE Step(TRUE, FALSE, NoResult)

\* Mutant: the loop of extract_video_url gives up once the deadline has passed
AttemptChecksDeadline(p, durations) ==
    /\ pc[p] = "poll"
    /\ IF DeadlineExceeded(p)
       THEN /\ ret' = Set(ret, p, PollResult(FALSE, "", attempt[p]))
            /\ pc' = Set(pc, p, "polled")
            /\ UNCHANGED <<attempt, gestured, scanned, elapsed>>
       ELSE LET i == attempt[p] + 1
                r == AttemptResult(cur_page[p].scans[i], i)
            IN
            /\ attempt' = Set(attempt, p, i)
            /\ gestured' = Set(gestured, p, gestured[p] \cup {i})
            /\ scanned' = Set(scanned, p, IF r.scan THEN scanned[p] \cup {i} ELSE scanned[p])
            /\ ret' = Set(ret, p, r.ret)
            /\ pc' = Set(pc, p, IF r.end THEN "polled" ELSE "poll")
            /\ \E d \in durations :
                 /\ elapsed[p] + d <= MaxElapsed
                 /\ elapsed' = Set(elapsed, p, elapsed[p] + d)
    /\ UNCHANGED <<lock, anime, total_eps_anilist, total_eps_miruro, total_eps, ep, results,
                   driver, temp_dir, quit_calls, rmtree_calls, broke_at, last_event, outcome,
                   report, status, anime_input, limiterVars, cur_page, began_at>>

\* One pass of the for loop of extract_video_url on the page of the episode;
\* the clock is not looked at.
Attempt(p, durations) ==
    /\ pc[p] = "poll"
    /\ LET i == attempt[p] + 1
           r == AttemptResult(cur_page[p].scans[i], i)
       IN
       /\ attempt' = Set(attempt, p, i)
       /\ gestured' = Set(gestured, p, gestured[p] \cup {i})
       /\ scanned' = Set(scanned, p, IF r.scan THEN scanned[p] \cup {i} ELSE scanned[p])
       /\ ret' = Set(ret, p, r.ret)
       /\ pc' = Set(pc, p, IF r.end THEN "polled" ELSE "poll")
    /\ \E d \in durations :
         /\ elapsed[p] + d <= MaxElapsed
         /\ elapsed' = Set(elapsed, p, elapsed[p] + d)
    /\ UNCHANGED <<lock, anime, total_eps_anilist, total_eps_miruro, total_eps, ep, results,
                   driver, temp_dir, quit_calls, rmtree_calls, broke_at, last_event, outcome,
                   report, status, anime_input, limiterVars, cur_page, began_at>>

\* The end of the try block: a URL is appended to results, an exception is
\* logged by the except Exception handler; the loop advances.
EndEpisode(p) ==
    /\ pc[p] = "polled"
    /\ results' = Set(results, p, Record(results[p], ep[p], ret[p]))
    /\ last_event' = Set(last_event, p, Event(ep[p],
           IF ret[p].raised THEN "raised" ELSE IF ret[p].url # "" THEN "found" ELSE "not_found"))
    /\ ep' = Set(ep, p, ep[p] + 1)
    /\ pc' = Set(pc, p, "loop")
    /\ cur_page' = Set(cur_page, p, QuietPage)
    /\ attempt' = Set(attempt, p, 0)
    /\ gestured' = Set(gestured, p, {})
    /\ scanned' = Set(scanned, p, {})
    /\ ret' = Set(ret, p, NoResult)
    /\ UNCHANGED <<lock, anime, elapsed, total_eps_anilist, total_eps_miruro, total_eps,
                   driver, temp_dir, quit_calls, rmtree_calls, broke_at, outcome, report,
                   status, anime_input, limiterVars, began_at>>

\* return {"anime_id": ..., "title": ..., "episodes": results}
BuildReport(p) ==
    [anime_id |-> ParseInput(anime_input[p]).anime_id, title |-> "title",
     episodes |-> results[p]]

\* Mutant: the break returns from outside the try block, the finally block is not run
DeadlineBreakSkipsCleanup(p) ==
    /\ pc[p] = "loop"
    /\ ep[p] <= total_eps[p]
    /\ DeadlineExceeded(p)
    /\ broke_at' = Set(broke_at, p, ep[p] - 1)
    /\ report' = Set(report, p, BuildReport(p))
    /\ outcome' = Set(outcome, p, "returned")
    /\ pc' = Set(pc, p, "exit")
    /\ UNCHANGED <<lock, anime, elapsed, total_eps_anilist, total_eps_miruro, total_eps, ep,
                   results, driver, temp_dir, quit_calls, rmtree_calls, last_event, status>>
    /\ UNCHANGED <<anime_input, auxVars>>

\* The deadline check of an iteration fails: break, then the return statement.
DeadlineBreak(p) ==
    /\ pc[p] = "loop"
    /\ ep[p] <= total_eps[p]
    /\ DeadlineExceeded(p)
    /\ broke_at' = Set(broke_at, p, ep[p] - 1)
    /\ report' = Set(report, p, BuildReport(p))
    /\ pc' = Set(pc, p, "quit")
    /\ UNCHANGED <<lock, anime, elapsed, total_eps_anilist, total_eps_miruro, total_eps, ep,
                   results, driver, temp_dir, quit_calls, rmtree_calls, last_event, outcome,
                   status>>
    /\ UNCHANGED <<anime_input, auxVars>>

\* The range is exhausted: the return statement.
LoopEnd(p) ==
    /\ pc[p] = "loop"
    /\ ep[p] > total_eps[p]
    /\ report' = Set(report, p, BuildReport(p))
    /\ pc' = Set(pc, p, "quit")
    /\ UNCHANGED <<lock, anime, elapsed, total_eps_anilist, total_eps_miruro, total_eps, ep,
                   results, driver, temp_dir, quit_calls, rmtree_calls, broke_at, last_event,
                   outcome, status>>
    /\ UNCHANGED <<anime_input, auxVars>>

\* finally: driver.quit(); when it raises, the rest of the finally block is
\* skipped and the exception replaces the return value.
Quit(p) ==
    /\ pc[p] = "quit"
    /\ quit_calls' = Set(quit_calls, p, quit_calls[p] + 1)
    /\ \E q \in {"ok", "raise"} :
         IF q = "ok"
         THEN /\ driver' = Set(driver, p, "quit")
              /\ pc' = Set(pc, p, "rmtree")
              /\ UNCHANGED <<report, outcome>>
         ELSE /\ driver' = Set(driver, p, "quit_failed")
              /\ report' = Set(report, p, NoReport)
              /\ outcome' = Set(outcome, p, "raised")
              /\ pc' = Set(pc, p, "exit")
    /\ UNCHANGED <<lock, anime, elapsed, total_eps_anilist, total_eps_miruro, total_eps, ep,
                   results, temp_dir, rmtree_calls, broke_at, last_event, status>>
    /\ UNCHANGED <<anime_input, auxVars>>

\* finally: shutil.rmtree(temp_dir, ignore_errors=True), then the function returns
Rmtree(p) ==
    /\ pc[p] = "rmtree"
    /\ rmtree_calls' = Set(rmtree_calls, p, rmtree_calls[p] + 1)
    /\ temp_dir' = Set(temp_dir, p, "removed")
    /\ outcome' = Set(outcome, p, "returned")
    /\ pc' = Set(pc, p, "exit")
    /\ UNCHANGED <<lock, anime, elapsed, total_eps_anilist, total_eps_miruro, total_eps, ep,
                   results, driver, quit_calls, broke_at, last_event, report, status>>
    /\ UNCHANGED <<anime_input, auxVars>>

\* Mutant: the lock is taken with acquire() and released by a release() that an
\* exception skips
ExitKeepsLockOnException(p) ==
    /\ pc[p] = "exit"
    /\ lock' = IF outcome[p] = "raised" THEN lock ELSE 0
    /\ status' = Set(status, p, IF outcome[p] = "returned" THEN 200 ELSE 500)
    /\ pc' = Set(pc, p, "responded")
    /\ anime' = Set(anime, p, NoAnime)
    /\ elapsed' = Set(elapsed, p, 0)
    /\ total_eps_anilist' = Set(total_eps_anilist, p, 0)
    /\ total_eps_miruro' = Set(total_eps_miruro, p, 0)
    /\ total_eps' = Set(total_eps, p, 0)
    /\ ep' = Set(ep, p, 0)
    /\ results' = Set(results, p, <<>>)
    /\ driver' = Set(driver, p, "none")
    /\ temp_dir' = Set(temp_dir, p, "none")
    /\ quit_calls' = Set(quit_calls, p, 0)
    /\ rmtree_calls' = Set(rmtree_calls, p, 0)
    /\ broke_at' = Set(broke_at, p, -1)
    /\ last_event' = Set(last_event, p, NoEvent)
    /\ outcome' = Set(outcome, p, "none")
    /\ report' = Set(report, p, NoReport)
    /\ UNCHANGED <<anime_input, auxVars>>

\* The with block is left (on a return and on an exception alike) and home
\* answers: jsonify(data) with 200, or Flask's 500 for an unhandled exception.
\* The locals of the run are gone with its frame.
Exit(p) ==
    /\ pc[p] = "exit"
    /\ lock' = 0
    /\ status' = Set(status, p, IF outcome[p] = "returned" THEN 200 ELSE 500)
    /\ pc' = Set(pc, p, "responded")
    /\ anime' = Set(anime, p, NoAnime)
    /\ elapsed' = Set(elapsed, p, 0)
    /\ total_eps_anilist' = Set(total_eps_anilist, p, 0)
    /\ total_eps_miruro' = Set(total_eps_miruro, p, 0)
    /\ total_eps' = Set(total_eps, p, 0)
    /\ ep' = Set(ep, p, 0)
    /\ results' = Set(results, p, <<>>)
    /\ driver' = Set(driver, p, "none")
    /\ temp_dir' = Set(temp_dir, p, "none")
    /\ quit_calls' = Set(quit_calls, p, 0)
    /\ rmtree_calls' = Set(rmtree_calls, p, 0)
    /\ broke_at' = Set(broke_at, p, -1)
    /\ last_event' = Set(last_event, p, NoEvent)
    /\ outcome' = Set(outcome, p, "none")
    /\ report' = Set(report, p, NoReport)
    /\ UNCHANGED <<anime_input, auxVars>>

\* The response is sent; the thread serves the next request.
Done(p) ==
    /\ pc[p] = "responded"
    /\ pc' = Set(pc, p, "idle")
    /\ status' = Set(status, p, 0)
    /\ anime_input' = Set(anime_input, p, <<>>)
    /\ UNCHANGED <<lock, runVars, auxVars>>

\* ------------------------------------------------- the command-line variant
\* app.py runs extract_miruro_links once per process, with no lock, no profile
\* directory and no deadline, and reports its progress through msg_fun, which
\* raises when the KEYS variable is unusable, when requests.get fails or when
\* the answer is not JSON.
MsgOutcomes == {"ok", "raise"}

\* what the command-line run leaves alone
cliUnused == <<lock, elapsed, total_eps_anilist, total_eps_miruro, temp_dir, rmtree_calls,
               broke_at, report, status, anime_input, auxVars>>

\* anime = fetch_anime_details(anime_id) up to msg_fun(start_msg)
AppFetch(p, metadata) ==
    /\ pc[p] = "idle"
    /\ \E m \in metadata, msg \in MsgOutcomes :
         /\ anime' = Set(anime, p, m)
         /\ IF ~m.media
            THEN /\ outcome' = Set(outcome, p, IF msg = "ok" THEN "returned" ELSE "raised")
                 /\ pc' = Set(pc, p, "app_exit")
                 /\ UNCHANGED total_eps
            ELSE IF AnilistCountRaises(m) \/ msg = "raise"
            THEN /\ outcome' = Set(outcome, p, "raised")
                 /\ pc' = Set(pc, p, "app_exit")
                 /\ UNCHANGED total_eps
            ELSE /\ total_eps' = Set(total_eps, p, AnilistCount(m))
                 /\ pc' = Set(pc, p, "app_init")
                 /\ UNCHANGED outcome
    /\ UNCHANGED <<ep, results, driver, quit_calls, last_event, cliUnused>>

\* driver = initialize_driver(); results = []
AppInitializeDriver(p) ==
    /\ pc[p] = "app_init"
    /\ \E launch \in {"ok", "raise"} :
         IF launch = "ok"
         THEN /\ driver' = Set(driver, p, "open")
              /\ ep' = Set(ep, p, 1)
              /\ pc' = Set(pc, p, "app_loop")
              /\ UNCHANGED outcome
         ELSE /\ outcome' = Set(outcome, p, "raised")
              /\ pc' = Set(pc, p, "app_exit")
              /\ UNCHANGED <<driver, ep>>
    /\ UNCHANGED <<anime, total_eps, results, quit_calls, last_event, cliUnused>>

\* One iteration of the for loop: msg_fun(short_msg) is outside the try block;
\* inside it a URL is appended before msg_fun(success_msg); the except Exception
\* handler calls msg_fun(err_msg). An exception of the first or the last of
\* these calls leaves extract_miruro_links.
AppEpisode(p, pages) ==
    /\ pc[p] = "app_loop"
    /\ ep[p] <= total_eps[p]
    /\ \E pg \in pages, short_msg, result_msg, err_msg \in MsgOutcomes :
         LET r == ProcessEpisode(pg)
             handled == r.raised \/ result_msg = "raise"
             escapes == short_msg = "raise" \/ (handled /\ err_msg = "raise")
         IN
         /\ results' = Set(results, p,
                IF short_msg = "raise" THEN results[p] ELSE Record(results[p], ep[p], r))
         /\ last_event' = Set(last_event, p, Event(ep[p],
                IF escapes THEN "escaped"
                ELSE IF handled THEN "raised"
                ELSE IF r.url # "" THEN "found" ELSE "not_found"))
         /\ IF escapes
            THEN /\ outcome' = Set(outcome, p, "raised")
                 /\ pc' = Set(pc, p, "app_exit")
                 /\ UNCHANGED ep
            ELSE /\ ep' = Set(ep, p, ep[p] + 1)
                 /\ UNCHANGED <<outcome, pc>>
    /\ UNCHANGED <<anime, total_eps, driver, quit_calls, cliUnused>>

\* The loop has ended: driver.quit(), then the closing messages and the files,
\* any of which may raise.
AppQuit(p) ==
    /\ pc[p] = "app_loop"
    /\ ep[p] > total_eps[p]
    /\ quit_calls' = Set(quit_calls, p, quit_calls[p] + 1)
    /\ \E q \in {"ok", "raise"}, rest \in MsgOutcomes :
         IF q = "ok"
         THEN /\ driver' = Set(driver, p, "quit")
              /\ outcome' = Set(outcome, p, IF rest = "ok" THEN "returned" ELSE "raised")
         ELSE /\ driver' = Set(driver, p, "quit_failed")
              /\ outcome' = Set(outcome, p, "raised")
    /\ pc' = Set(pc, p, "app_exit")
    /\ UNCHANGED <<anime, total_eps, ep, results, last_event, cliUnused>>

\* The process ends; the next start of the program finds nothing of this run.
AppEnd(p) ==
    /\ pc[p] = "app_exit"
    /\ pc' = Set(pc, p, "idle")
    /\ anime' = Set(anime, p, NoAnime)
    /\ total_eps' = Set(total_eps, p, 0)
    /\ ep' = Set(ep, p, 0)
    /\ results' = Set(results, p, <<>>)
    /\ driver' = Set(driver, p, "none")
    /\ quit_calls' = Set(quit_calls, p, 0)
    /\ last_event' = Set(last_event, p, NoEvent)
    /\ outcome' = Set(outcome, p, "none")
    /\ UNCHANGED cliUnused

\* The requests of the concurrent model all ask for the same valid identifier.
RunRequests == {Request(<<"2", "1">>, <<>>, <<>>)}

Next ==
    \E p \in Procs :
        \/ Home(p, RunRequests)
        \/ Acquire(p)
        \/ Fetch(p, MetadataFor(MaxEpisodes))
        \/ InitializeDriver(p, Durations)
        \/ Probe(p, MaxProbe, Durations)
        \/ Episode(p, Pages, Durations)
        \/ DeadlineBreak(p)
        \/ LoopEnd(p)
        \/ Quit(p)
        \/ Rmtree(p)
        \/ Exit(p)
        \/ Done(p)

Spec == Init /\ [][Next]_vars

\* ---------------------------------------------- the reconciliation alone
\* One run at a time over every metadata shape and every count up to MaxCount,
\* on pages that show no URL and with a clock that stands still, so that the
\* loop runs its full range.
CountMetadata == MetadataFor(MaxCount) \cup {Media("missing", 0)}

NextCount ==
    \E p \in {1} :
        \/ Home(p, RunRequests)
        \/ Acquire(p)
        \/ Fetch(p, CountMetadata)
        \/ InitializeDriver(p, {0})
        \/ Probe(p, MaxCount, {0})
        \/ Episode(p, QuietPages, {0})
        \/ LoopEnd(p)
        \/ Quit(p)
        \/ Rmtree(p)
        \/ Exit(p)
        \/ Done(p)

SpecCount == Init /\ [][NextCount]_vars

\* ------------------------------------------------------- the front door alone
\* Every shape of input home() tells apart, each given as any one of the three
\* parameters, and two requests that give more than one parameter; the runs
\* behind the accepted ones open a session for a title of no episodes.
FrontDoorTexts ==
    {<<>>,
     <<"1", "2", "3", "4", "5">>,
     <<"a", "b", "c">>,
     <<"1", "2", "a">>,
     <<" ", "4", "2", " ">>,
     <<"-", "7">>,
     <<"1", "_", "0">>,
     <<"1", "_", "_", "0">>,
     <<"h", "t", "t", "p", "s", ":", "/", "/", "w", "w", "w", ".", "m", "i", "r", "u", "r", "o", ".", "t", "o", "/", "w", "a", "t", "c", "h", "/", "2", "1">>,
     <<"h", "t", "t", "p", "s", ":", "/", "/", "w", "w", "w", ".", "m", "i", "r", "u", "r", "o", ".", "t", "o", "/", "w", "a", "t", "c", "h", "/", "a", "b", "c">>,
     <<"h", "t", "t", "p", "s", ":", "/", "/", "w", "w", "w", ".", "m", "i", "r", "u", "r", "o", ".", "t", "o", "/", "n", "o", "t", "h", "i", "n", "g">>,
     <<"h", "t", "t", "p", "s", ":", "/", "/", "s", "i", "t", "e", "/", "w", "a", "t", "c", "h", "/", "a", "b", "c">>,
     <<"h", "t", "t", "p", "s", ":", "/", "/", "s", "i", "t", "e", "/", "n", "o", "t", "h", "i", "n", "g">>,
     <<"h", "t", "t", "p", "s", ":", "/", "/", "s", "i", "t", "e", "/", "w", "a", "t", "c", "h", "/", "1", "2", "3">>,
     <<"m", "i", "r", "u", "r", "o", ".", "t", "o", "/", "w", "a", "t", "c", "h", "/", "9", "x">>}

FrontDoorRequests ==
    {Request(t, <<>>, <<>>) : t \in FrontDoorTexts}
        \cup {Request(<<>>, t, <<>>) : t \in FrontDoorTexts}
        \cup {Request(<<>>, <<>>, t) : t \in FrontDoorTexts}
        \cup {Request(<<"a", "b", "c">>, <<"7">>, <<>>),
              Request(<<>>, <<"7">>, <<"a", "b", "c">>)}

NextFrontDoor ==
    \E p \in Procs :
        \/ Home(p, FrontDoorRequests)
        \/ Acquire(p)
        \/ Fetch(p, {Media("int", 0)})
        \/ InitializeDriver(p, {0})
        \/ Probe(p, 0, {0})
        \/ LoopEnd(p)
        \/ Quit(p)
        \/ Rmtree(p)
        \/ Exit(p)
        \/ Done(p)

SpecFrontDoor == Init /\ [][NextFrontDoor]_vars

\* ------------------------------------------------------ the rate limiter alone
\* Requests of every client arrive one at a time while the clock advances; a
\* request either asks for a valid identifier or gives no input, and the runs
\* find no metadata.
LimiterRequests == RunRequests \cup {Request(<<>>, <<>>, <<>>)}

NextLimiter ==
    \/ Tick
    \/ \E p \in {1} :
        \/ \E c \in Clients : LimitedHome(p, c, LimiterRequests)
        \/ Acquire(p)
        \/ Fetch(p, {NoAnime})
        \/ Exit(p)
        \/ Done(p)

SpecLimiter == Init /\ [][NextLimiter]_vars

\* ------------------------------------------------------------ the poller alone
\* One run of two episodes whose loop body is taken attempt by attempt, with a
\* clock that may advance at every step. The pages: navigation fails; the body
\* lookup fails; nothing ever shows; an .m3u8 URL at the first attempt; an .mp4
\* URL before an .m3u8 URL at the last attempt; an .m3u8 URL before an .mp4 URL;
\* .mp4 URLs only, after another URL; a raising gesture at the attempt that
\* shows a URL; a raising gesture at the first attempt and a URL at the third; a
\* raising wait whose fallback read shows a URL; a read that raises twice at
\* the third attempt; a raising gesture at the last attempt of a quiet page.
PollerPages ==
    {Page("raise", TRUE, 1, QuietScan),
     Page("ok", FALSE, 1, QuietScan),
     QuietPage,
     Page("ok", TRUE, 1, Scan("ok", "ok", <<"a.m3u8">>)),
     Page("ok", TRUE, max_attempts, Scan("ok", "ok", <<"page.html", "a.mp4", "a.m3u8", "b.mp4">>)),
     Page("ok", TRUE, 2, Scan("ok", "ok", <<"b.m3u8", "a.mp4">>)),
     Page("ok", TRUE, 2, Scan("ok", "ok", <<"page.html", "b.mp4", "a.mp4">>)),
     Page("ok", TRUE, 2, Scan("raise", "ok", <<"a.mp4">>)),
     Page2(1, Scan("raise", "ok", <<>>), 3, Scan("ok", "ok", <<"a.m3u8">>)),
     Page("ok", TRUE, 2, Scan("ok", "fallback", <<"b.m3u8">>)),
     Page2(3, Scan("ok", "raise", <<>>), 4, Scan("ok", "ok", <<"a.m3u8">>)),
     Page("ok", TRUE, max_attempts, Scan("raise", "ok", <<>>))}

NextPoller ==
    \E p \in {1} :
        \/ Home(p, RunRequests)
        \/ Acquire(p)
        \/ Fetch(p, {Media("int", 2)})
        \/ InitializeDriver(p, {0})
        \/ Probe(p, 0, {0})
        \/ BeginEpisode(p, PollerPages, Durations)
        \/ Attempt(p, Durations)
        \/ EndEpisode(p)
        \/ DeadlineBreak(p)
        \/ LoopEnd(p)
        \/ Quit(p)
        \/ Rmtree(p)
        \/ Exit(p)
        \/ Done(p)

SpecPoller == Init /\ [][NextPoller]_vars

\* ---------------------------------------------------- the command-line variant
NextCli ==
    \E p \in {1} :
        \/ AppFetch(p, MetadataFor(MaxEpisodes))
        \/ AppInitializeDriver(p)
        \/ AppEpisode(p, Pages)
        \/ AppQuit(p)
        \/ AppEnd(p)

SpecCli == Init /\ [][NextCli]_vars

\* ------------------------------------------------------- requests under fairness
\* Short runs (no metadata, or one episode on a quiet page, with a clock that stands still) of
\* requests that may keep arriving. A thread that can take a step takes it in
\* the end: every operation of a run returns or raises, and a response is sent.
\* A thread blocked on extraction_lock can step only while the lock is free, and
\* threading.Lock does not say which of the blocked threads a release wakes, so
\* the fairness that holds for taking the lock is the weak one.
RunStep(p) ==
    \/ Fetch(p, {NoAnime, Media("int", 1)})
    \/ InitializeDriver(p, {0})
    \/ Probe(p, 1, {0})
    \/ Episode(p, QuietPages, {0})
    \/ LoopEnd(p)
    \/ Quit(p)
    \/ Rmtree(p)
    \/ Exit(p)

NextFair ==
    \E p \in Procs :
        \/ Home(p, RunRequests)
        \/ Acquire(p)
        \/ Fetch(p, {NoAnime, Media("int", 1)})
        \/ InitializeDriver(p, {0})
        \/ Probe(p, 1, {0})
        \/ Episode(p, QuietPages, {0})
        \/ LoopEnd(p)
        \/ Quit(p)
        \/ Rmtree(p)
        \/ Exit(p)
        \/ Done(p)

SpecFair ==
    /\ Init
    /\ [][NextFair]_vars
    /\ \A p \in Procs : WF_vars(Acquire(p)) /\ WF_vars(RunStep(p)) /\ WF_vars(Done(p))
\* ================================================================== claims

\* A run holds a session from the moment initialize_driver has created the
\* profile directory until its frame is gone.
SessionHeld(p) == driver[p] = "open" \/ temp_dir[p] = "exists"

\* The run of slot p has ended: its return value or exception is decided and the
\* with block is about to be left.
Ended(p) == pc[p] = "exit"

\* C1: among any number of concurrent requests at most one browser session is
\* open in every reachable state: no two runs hold a session at the same time,
\* so a run's initialize_driver comes after the previous holder's cleanup.
C1_OneSessionAtATime ==
    /\ Cardinality({p \in Procs : driver[p] = "open"}) <= 1
    /\ \A p, q \in Procs : p # q => ~(SessionHeld(p) /\ SessionHeld(q))
    /\ \A p \in Procs : SessionHeld(p) => lock = p

\* A second request waits for the lock while the first one has its browser open.
C1_Witness ==
    \E p, q \in Procs : p # q /\ driver[p] = "open" /\ pc[q] = "acquire"

\* C2: every run that acquired a session and ends under any combination of probe
\* failure, navigation failure, gesture exception, exhausted attempts and
\* deadline break has executed driver.quit and the profile removal exactly once
\* each, the removal after the quit; neither is ever executed twice.
C2_ReleaseExactlyOnce ==
    \A p \in Procs :
        /\ quit_calls[p] <= 1
        /\ rmtree_calls[p] <= quit_calls[p]
        /\ (Ended(p) /\ driver[p] \in {"open", "quit"}) =>
               /\ quit_calls[p] = 1
               /\ rmtree_calls[p] = 1
               /\ driver[p] = "quit"

\* A run whose last episode raised and which the deadline then broke off has
\* ended with both calls made once.
C2_Witness ==
    \E p \in Procs :
        /\ Ended(p)
        /\ broke_at[p] >= 1
        /\ last_event[p].result = "raised"
        /\ total_eps_miruro[p] = 0
        /\ quit_calls[p] = 1
        /\ rmtree_calls[p] = 1

\* C3: every profile directory initialize_driver created is gone once the run that
\* created it has ended, also when the browser launch fails after the directory
\* was created or driver.quit raises in the cleanup block.
C3_ProfileRemovedOnEveryExit ==
    \A p \in Procs : Ended(p) => temp_dir[p] # "exists"

\* The authoritative count with the default substituted for a missing key.
AuthoritativeCount(p) ==
    IF anime[p].key = "missing" THEN 12 ELSE anime[p].episodes

ExpectedCount(a, s) == Min(25, Min(a, IF s > 0 THEN s ELSE a))

\* C4: for every authoritative count A and site-probed count S (0 when detection
\* failed) the number of episodes the run iterates over is
\* min(25, A, S if S > 0 else A), and it is never greater than 25.
C4_EffectiveCount ==
    \A p \in Procs :
        /\ pc[p] \in {"loop", "quit", "rmtree"} =>
               /\ total_eps[p] = ExpectedCount(AuthoritativeCount(p), total_eps_miruro[p])
               /\ total_eps[p] <= 25
               /\ ep[p] <= total_eps[p] + 1
        /\ (pc[p] \in {"quit", "rmtree"} /\ broke_at[p] = -1) =>
               ep[p] - 1 = ExpectedCount(AuthoritativeCount(p), total_eps_miruro[p])

\* A run with more than 25 authoritative episodes and a failed probe has gone
\* through 25 iterations.
C4_Witness ==
    \E p \in Procs :
        /\ pc[p] = "quit"
        /\ anime[p].episodes > 25
        /\ total_eps_miruro[p] = 0
        /\ ep[p] = 26

\* C5: the reconciliation never raises: for every available metadata response,
\* also one without an authoritative count (key missing or null), the run gets
\* past the computation of the count with a value in 0..25.
C5_ReconciliationNeverRaises ==
    \A p \in Procs :
        (anime[p].media /\ temp_dir[p] = "none") =>
            /\ pc[p] = "init"
            /\ total_eps_anilist[p] \in 0..25

\* C6: when the authoritative count is absent or zero and the site-probed count
\* is zero, the effective count is the default 12: such a run has not ended
\* before its loop and its loop does not run over zero episodes.
C6_DefaultWhenBothZero ==
    \A p \in Procs :
        (/\ anime[p].media
         /\ anime[p].key \in {"missing", "null"} \/ anime[p].episodes = 0
         /\ pc[p] \in {"loop", "exit"}
         /\ total_eps_miruro[p] = 0) =>
            /\ outcome[p] # "raised" \/ temp_dir[p] # "none"
            /\ temp_dir[p] # "none" /\ driver[p] # "none" => total_eps[p] = 12

\* C7: when the deadline check between episode k and k+1 finds the deadline
\* exceeded, the returned report has its truncated flag set and holds results
\* for episodes of 1..k only.
C7_TruncatedReport ==
    \A p \in Procs :
        (Ended(p) /\ outcome[p] = "returned" /\ broke_at[p] >= 0) =>
            /\ "truncated" \in DOMAIN report[p]
            /\ report[p].truncated = TRUE
            /\ \A i \in 1..Len(report[p].episodes) :
                   report[p].episodes[i].episode \in 1..broke_at[p]

\* C8: when fetch_anime_details returns None the run returns the error report at
\* once and opens no session: initialize_driver is not called, no profile
\* directory is created.
C8_NoSessionWithoutMetadata ==
    \A p \in Procs :
        (~anime[p].media /\ pc[p] \notin {"idle", "acquire", "fetch", "responded"}) =>
            /\ Ended(p)
            /\ outcome[p] = "returned"
            /\ report[p] = ErrorReport
            /\ driver[p] = "none"
            /\ temp_dir[p] = "none"
            /\ quit_calls[p] = 0
            /\ rmtree_calls[p] = 0

C8_Witness ==
    \E p \in Procs : Ended(p) /\ report[p] = ErrorReport /\ lock = p

Ordered(rs, n) ==
    /\ Len(rs) <= n
    /\ \A i \in 1..Len(rs) : rs[i].episode \in 1..n
    /\ \A i, j \in 1..Len(rs) : i < j => rs[i].episode < rs[j].episode

\* C9: in every report and at every point while the results list is built, the
\* episode indices of the entries are strictly increasing without duplicates,
\* each lies in 1..effective count, and there are at most effective count entries.
C9_ResultsOrdered ==
    \A p \in Procs :
        /\ Ordered(results[p], total_eps[p])
        /\ "episodes" \in DOMAIN report[p] => Ordered(report[p].episodes, total_eps[p])

\* A report with entries for episodes 1 and 3 and none for episode 2.
C9_Witness ==
    \E p \in Procs :
        /\ Ended(p)
        /\ outcome[p] = "returned"
        /\ "episodes" \in DOMAIN report[p]
        /\ Len(report[p].episodes) = 2
        /\ report[p].episodes[1].episode = 1
        /\ report[p].episodes[2].episode = 3

\* C10: an exception raised while episode k is processed does not abort the
\* run: the step leaves no entry for k, leaves the run in its loop with nothing
\* raised, and the loop goes on to episode k+1; the run still ends with its
\* report unless the cleanup itself raises.
C10_EpisodeExceptionContained ==
    /\ [](\A p \in Procs :
            (last_event[p].result = "raised" /\ Ended(p) /\ driver[p] # "quit_failed") =>
                /\ outcome[p] = "returned"
                /\ "episodes" \in DOMAIN report[p])
    /\ [][\A p \in Procs :
          (last_event'[p] # last_event[p] /\ last_event'[p].result = "raised") =>
              /\ pc'[p] = "loop"
              /\ outcome'[p] = "none"
              /\ last_event'[p].episode = ep[p]
              /\ ep'[p] = ep[p] + 1
              /\ results'[p] = results[p]
              /\ \A i \in 1..Len(results'[p]) : results'[p][i].episode # ep[p]]_vars

\* Episode 2 raised after episode 1 was found; the run is back at the head of
\* its loop, within the deadline, with episode 3 to come.
C10_Witness ==
    \E p \in Procs :
        /\ pc[p] = "loop"
        /\ last_event[p] = Event(2, "raised")
        /\ Len(results[p]) = 1
        /\ ep[p] = 3
        /\ total_eps[p] = 3
        /\ ~DeadlineExceeded(p)

\* The input is a URL in which no "watch/" is followed by a digit.
UrlLackingWatchDigits(s) ==
    /\ Contains(s, <<":", "/", "/">>)
    /\ ~\E i \in 1..Len(s) :
           /\ StartsAt(s, Tail(WATCH), i)
           /\ i + Len(WATCH) - 1 <= Len(s)
           /\ s[i + Len(WATCH) - 1] \in Digits

\* The input is a bare value that is no integer.
BareNonInteger(s) ==
    /\ s # <<>>
    /\ ~Contains(s, <<":", "/", "/">>)
    /\ ~Contains(s, MIRURO)
    /\ int(s).raises

\* C11: a request whose input is a URL lacking watch/<digits>, or a bare value
\* that does not parse as an integer, is answered with status 400 without the
\* coordinator being invoked: from the moment home has read such an input the
\* request is answered, it never waits for or holds the extraction lock, and it
\* has no session.
C11_MalformedInputRejected ==
    \A p \in Procs :
        (pc[p] # "idle"
            /\ (UrlLackingWatchDigits(anime_input[p]) \/ BareNonInteger(anime_input[p])))
        => /\ pc[p] = "responded"
           /\ status[p] = 400
           /\ lock # p
           /\ ~SessionHeld(p)
           /\ report[p] = NoReport

\* a URL whose watch segment is not a number has been answered 400 while the
\* other slot's accepted request holds a session
C11_Witness ==
    \E p, q \in Procs :
        /\ anime_input[p] = <<"h", "t", "t", "p", "s", ":", "/", "/", "s", "i", "t", "e", "/", "w", "a", "t", "c", "h", "/", "a", "b", "c">>
        /\ status[p] = 400
        /\ anime_input[q] = <<"h", "t", "t", "p", "s", ":", "/", "/", "w", "w", "w", ".", "m", "i", "r", "u", "r", "o", ".", "t", "o", "/", "w", "a", "t", "c", "h", "/", "2", "1">>
        /\ driver[q] = "open"

\* C12: for each client a sliding-window ceiling of 5 requests per minute holds:
\* of the client's requests of the last 60 seconds at most 5 have reached
\* extract_miruro_links, and a request answered with the throttling error has
\* not reached home() or the coordinator.
C12_SlidingWindowCeiling ==
    /\ \A c \in Clients : Len(Recent(passed[c], now)) <= LIMIT_AMOUNT
    /\ \A p \in Procs :
           status[p] = 429
           => pc[p] = "responded" /\ anime_input[p] = <<>> /\ lock # p /\ ~SessionHeld(p)

\* The stepwise poller and the function agree: the try block of an episode ends
\* as ProcessEpisode says for its page.
PollerAgrees ==
    \A p \in Procs : pc[p] = "polled" => ret[p] = ProcessEpisode(cur_page[p])

\* The page source that attempt i of the page reads holds a URL of either format.
HasUrl(pg, i) ==
    \E k \in DOMAIN pg.scans[i].html : pg.scans[i].html[k] \in M3U8_URLS \cup MP4_URLS

\* extract_video_url has returned (a URL or None) on the page of slot p.
Returned(p) == pc[p] = "polled" /\ ~ret[p].raised

\* C13: extract_video_url makes at most max_attempts attempts; when it returns
\* a URL, the last attempt made is the first whose scan matches; it returns no
\* URL exactly when all 25 scans were made and none matched.
C13_PollerAttempts ==
    \A p \in Procs :
        /\ attempt[p] <= max_attempts
        /\ gestured[p] = 1..attempt[p]
        /\ Returned(p) =>
             /\ ret[p].url # "" =>
                  /\ attempt[p] \in scanned[p]
                  /\ HasUrl(cur_page[p], attempt[p])
                  /\ \A i \in 1..(attempt[p] - 1) :
                         i \in scanned[p] /\ ~HasUrl(cur_page[p], i)
             /\ ret[p].url = "" <=>
                  /\ scanned[p] = 1..max_attempts
                  /\ \A i \in 1..max_attempts : ~HasUrl(cur_page[p], i)

\* a URL is returned from the third attempt after two scans without a match
C13_Witness ==
    \E p \in Procs :
        /\ Returned(p)
        /\ ret[p].url = "a.m3u8"
        /\ attempt[p] = 3
        /\ scanned[p] = {1, 2, 3}

\* the page source read by the last attempt made on the page of slot p
LastHtml(p) == cur_page[p].scans[attempt[p]].html

\* C14: when the scan that ends the polling holds both an .m3u8 URL and an .mp4
\* URL the .m3u8 URL is returned, wherever the two are; an .mp4 URL is returned
\* only when the scan holds no .m3u8 URL.
C14_M3u8Preferred ==
    \A p \in Procs :
        (Returned(p) /\ ret[p].url # "") =>
            /\ \E k \in DOMAIN LastHtml(p) : LastHtml(p)[k] = ret[p].url
            /\ (\E k \in DOMAIN LastHtml(p) : LastHtml(p)[k] \in M3U8_URLS)
                   => ret[p].url \in M3U8_URLS
            /\ ret[p].url \in MP4_URLS
                   => \A k \in DOMAIN LastHtml(p) : LastHtml(p)[k] \notin M3U8_URLS

\* the .m3u8 URL is returned from a scan in which an .mp4 URL comes first
C14_Witness ==
    \E p \in Procs :
        /\ Returned(p)
        /\ LastHtml(p) = <<"page.html", "a.mp4", "a.m3u8", "b.mp4">>
        /\ ret[p].url = "a.m3u8"

\* C15: every exception of an attempt is contained to that attempt: the try
\* block of an episode ends with an exception only when the page load failed
\* before the first attempt.
C15_AttemptExceptionsContained ==
    \A p \in Procs :
        (pc[p] = "polled" /\ ret[p].raised) => attempt[p] = 0

\* C16: an exception of the play gesture of attempt n is swallowed: the scan of
\* attempt n is made whenever the page source can be read, and a URL in that
\* scan is returned as found.
C16_GestureExceptionSwallowed ==
    \A p \in Procs :
        \A n \in gestured[p] :
            LET sc == cur_page[p].scans[n] IN
            (sc.gesture = "raise" /\ sc.read # "raise") =>
                /\ n \in scanned[p]
                /\ HasUrl(cur_page[p], n) =>
                     /\ Returned(p)
                     /\ ret[p].attempts = n
                     /\ \E k \in DOMAIN sc.html : sc.html[k] = ret[p].url

\* the URL of the second attempt is returned although its gesture raised
C16_Witness ==
    \E p \in Procs :
        /\ Returned(p)
        /\ attempt[p] = 2
        /\ cur_page[p].scans[2].gesture = "raise"
        /\ ret[p].url = "a.mp4"

\* C17: the deadline is looked at only at the start of an iteration: no episode
\* begins once the elapsed time is above 600 s; an episode that has begun is
\* polled on whatever the clock says, every step of its polling being an
\* attempt and none a break; and when its try block has ended its result is
\* recorded.
C17_DeadlineOnlyBetweenEpisodes ==
    /\ [](\A p \in Procs : pc[p] \in {"poll", "polled"} => began_at[p] <= MAX_RUNTIME_SECONDS)
    /\ [][\A p \in Procs :
            /\ (pc[p] = "poll" /\ <<pc[p], attempt[p], elapsed[p]>>' # <<pc[p], attempt[p], elapsed[p]>>)
                   => /\ attempt'[p] = attempt[p] + 1
                      /\ pc'[p] \in {"poll", "polled"}
                      /\ (pc'[p] = "polled" /\ ~ret'[p].raised /\ ret'[p].url = "")
                             => attempt'[p] = max_attempts
                      /\ broke_at'[p] = broke_at[p]
            /\ (pc[p] = "polled" /\ pc'[p] # "polled")
                   => /\ pc'[p] = "loop"
                      /\ results'[p] = Record(results[p], ep[p], ret[p])
                      /\ last_event'[p].episode = ep[p]
                      /\ broke_at'[p] = broke_at[p]]_vars

\* the first episode began in time, the deadline passed during its polling, its
\* URL is recorded and the second episode is not begun
C17_Witness ==
    \E p \in Procs :
        /\ pc[p] = "loop"
        /\ ep[p] = 2
        /\ total_eps[p] = 2
        /\ began_at[p] = 0
        /\ elapsed[p] > MAX_RUNTIME_SECONDS
        /\ last_event[p] = Event(1, "found")
        /\ Len(results[p]) = 1

\* C18: in the command-line variant the session opened by initialize_driver is
\* closed exactly once on every exit path of the run: a run that has ended and
\* had opened a browser has called driver.quit() once.
C18_CliSessionClosedOnce ==
    \A p \in Procs :
        (pc[p] = "app_exit" /\ driver[p] # "none") => quit_calls[p] = 1

\* the positions of a slot inside the with block of extract_miruro_links
RunPositions == {"fetch", "init", "probe", "loop", "poll", "polled", "quit", "rmtree", "exit"}

\* C19: the extraction lock is held only while a run is in progress: its holder
\* is a slot inside the with block, a slot inside the with block holds it, and
\* a slot that has left the block by a return or by an exception no longer does.
C19_LockHeldOnlyDuringRun ==
    /\ lock \in Procs \cup {0}
    /\ \A p \in Procs : lock = p <=> pc[p] \in RunPositions

\* a run has ended by an exception and another request has taken the lock since
C19_Witness ==
    \E p, q \in Procs :
        /\ pc[p] = "responded"
        /\ status[p] = 500
        /\ lock = q
        /\ pc[q] = "init"

\* C20: requests that arrive while a run is in progress queue on the lock, and
\* every queued request eventually acquires the lock, runs and is answered.
C20_EveryQueuedRequestServed ==
    \A p \in Procs : (pc[p] = "acquire") ~> (pc[p] = "responded")

\* C20 as the code has it: a request that waits for the lock is never turned
\* away, its next step is to take the lock; every run that has the lock ends
\* and is answered, the lock being released; while requests wait the lock does
\* not stay free; and a request is served in the end if the lock is granted to
\* it strongly fairly, which threading.Lock does not promise.
C20_QueuedAndServedIfGrantedFairly ==
    /\ [][\A p \in Procs : pc[p] = "acquire" => pc'[p] \in {"acquire", "fetch"}]_vars
    /\ \A p \in Procs : (lock = p) ~> (pc[p] = "responded" /\ lock # p)
    /\ (lock = 0 /\ \E p \in Procs : pc[p] = "acquire") ~> (lock # 0)
    /\ \A p \in Procs :
           SF_vars(Acquire(p)) => ((pc[p] = "acquire") ~> (pc[p] = "responded"))

\* a request waits for the lock while the run that holds it is in its episode loop
C20_Witness ==
    \E p, q \in Procs :
        /\ pc[p] = "acquire"
        /\ lock = q
        /\ pc[q] = "loop"
        /\ ep[q] = 1

====
